---- MODULE Spec2Model ----
(***************************************************************************)
(* A model of mytorch's reverse-mode automatic differentiation core:       *)
(* Config / using_config, Variable, Function.__call__, Variable.backward   *)
(* (src/mytorch/base.py) and the shape rules of the operations in          *)
(* src/mytorch/functions.py and src/mytorch/utils.py.                      *)
(*                                                                         *)
(* Variable and Function objects live in two heaps indexed by the order of *)
(* their construction.  Tensor data in the engine specification are        *)
(* scalars (shape ()), so gradients are integers; a gradient is None       *)
(* (<<>>) or Some(v) (<<v>>).  Every Function subclass of the repository   *)
(* returns one array from forward, so each Function has one output.        *)
(* The rules compute gradients with Variable arithmetic, so a gradient is  *)
(* itself a Variable with a creator; backward() never follows those        *)
(* creators, and the model keeps a gradient's value only.                  *)
(***************************************************************************)
EXTENDS Integers, Sequences, FiniteSets, TLC

\* ---------------------------------------------------------------- bounds
MaxVars == 4          \* Variable objects constructed
MaxDepth == 6         \* nested using_config blocks
MaxBackward == 2      \* calls of Variable.backward
MaxNdim == 3          \* dimensions of an array in the shape specifications

LeafData == {2}       \* data of the leaf Variables the caller constructs
Kinds == {"Add", "Mul", "Neg"}
Arity(kind) == IF kind = "Neg" THEN 1 ELSE 2

None == <<>>
Some(v) == <<v>>
NoCreator == 0        \* Variable.creator = None

VARIABLES
    enable_backprop,  \* Config.enable_backprop
    frames,           \* old_value of each using_config block that is open
    variable,         \* heap of Variable objects: data, grad, creator, generation
    function,         \* heap of Function objects: kind, inputs, outputs, generation
    pc,               \* "idle", or "while" inside Variable.backward's loop
    self,             \* the Variable backward() was called on
    retain_grad,      \* backward's argument
    funcs,            \* backward's worklist (sorted by generation)
    seen_set,         \* backward's visited set
    err,              \* the exception the last call raised, "none" if it returned
    nback,            \* number of backward() calls so far
    fresh,            \* history: every grad was None when this backward() began
    calls,            \* history: per Function, calls of f.backward in this backward()
    hist,             \* history: the last backward(retain_grad=True) that began with
                      \* every grad None and returned: its seed, the grads it left,
                      \* and the Variables cleargrad() was called on since
    rerun,            \* history: how this backward() repeats the one in hist
    entry,            \* history: the flag's value when each open block was entered
    tr,               \* one Transpose: its axes and the axis order of the array
    sh                \* one two-input Function: the shapes of inputs, output, grads

engine == <<enable_backprop, frames, variable, function, pc, self, retain_grad,
            funcs, seen_set, err, nback, fresh, calls, hist, rerun, entry>>

vars == <<engine, tr, sh>>

NoHist == [seed |-> 0, snap |-> <<>>, cleared |-> {}]
NoRerun == [kind |-> "no", snap |-> <<>>]

\* ------------------------------------------------------------ Variable
\* Variable.__init__: grad None, creator None, generation 0.
NewVariable(data) ==
    [data |-> data, grad |-> None, creator |-> NoCreator, generation |-> 0]

\* Variable.set_creator
set_creator(v, f, fgen) == [v EXCEPT !.creator = f, !.generation = fgen + 1]

\* ------------------------------------------------------------ operators
\* forward of Add / Mul / Neg on scalar data.
Forward(kind, xs) ==
    CASE kind = "Add" -> xs[1] + xs[2]
      [] kind = "Mul" -> xs[1] * xs[2]
      [] kind = "Neg" -> 0 - xs[1]

\* Neg.backward: dx = -dy; return -dx.
NegBackward(dy) == LET dx == 0 - dy IN <<0 - dx>>

\* backward of each operator: one gradient per input, in input order.
\* Scalar inputs have equal shapes, so no sum_to is applied here.
BackwardRule(kind, xs, dy) ==
    CASE kind = "Add" -> <<dy, dy>>
      [] kind = "Mul" -> <<dy * xs[2], dy * xs[1]>>
      [] kind = "Neg" -> NegBackward(dy)

\* ------------------------------------------------------------ helpers
RECURSIVE MaxOf(_)
MaxOf(s) ==
    IF Len(s) = 1 THEN s[1]
    ELSE LET m == MaxOf(Tail(s)) IN IF s[1] > m THEN s[1] ELSE m

Last(s) == s[Len(s)]
Front(s) == SubSeq(s, 1, Len(s) - 1)
Range(s) == {s[i] : i \in 1..Len(s)}

\* ------------------------------------------------------------ Config
\* using_config.__enter__: old_value = getattr(...); setattr(..., value)
Enter(value) ==
    /\ pc = "idle"
    /\ UNCHANGED <<tr, sh>>
    /\ Len(frames) < MaxDepth
    /\ frames' = Append(frames, enable_backprop)
    /\ enable_backprop' = value
    /\ entry' = Append(entry, enable_backprop)
    /\ err' = "none"
    /\ UNCHANGED <<variable, function, pc, self, retain_grad, funcs, seen_set,
                   nback, fresh, calls, hist, rerun>>

\* Mutant of Restore: the finally clause resets the flag to its default.
RestoreDefault(old_value) == TRUE

\* The restore in using_config's finally clause.
Restore(old_value) == old_value

\* using_config.__exit__: the finally clause runs whether the block ended
\* normally or raised; an exception keeps propagating.
Exit(raised) ==
    /\ pc = "idle"
    /\ UNCHANGED <<tr, sh>>
    /\ frames # <<>>
    /\ enable_backprop' = Restore(Last(frames))
    /\ frames' = Front(frames)
    /\ entry' = Front(entry)
    /\ err' = IF raised THEN "Exception" ELSE "none"
    /\ UNCHANGED <<variable, function, pc, self, retain_grad, funcs, seen_set,
                   nback, fresh, calls, hist, rerun>>

\* ------------------------------------------------------------ construction
\* Variable(data) called by user code (or as_variable on a raw array).
Leaf(data) ==
    /\ pc = "idle"
    /\ UNCHANGED <<tr, sh>>
    /\ Len(variable) < MaxVars
    /\ variable' = Append(variable, NewVariable(data))
    /\ err' = "none"
    /\ UNCHANGED <<enable_backprop, frames, function, pc, self, retain_grad,
                   funcs, seen_set, nback, fresh, calls, hist, rerun, entry>>

\* Mutant of FunctionGeneration: the generation of the first input only.
FunctionGenerationFirst(inputs) == variable[inputs[1]].generation

\* Function.generation as computed in Function.__call__.
FunctionGeneration(inputs) == MaxOf([i \in 1..Len(inputs) |-> variable[inputs[i]].generation])

\* Function.__call__ on a fresh Function instance of the given kind, with
\* Config.enable_backprop read as `tracking`.
CallWith(tracking, kind, inputs) ==
    LET xs == [i \in 1..Len(inputs) |-> variable[inputs[i]].data]
        y == Forward(kind, xs)
        out == Len(variable) + 1
        f == Len(function) + 1
        gen == FunctionGeneration(inputs)
    IN IF tracking
       THEN /\ variable' = Append(variable, set_creator(NewVariable(y), f, gen))
            /\ function' = Append(function,
                   [kind |-> kind, inputs |-> inputs, outputs |-> <<out>>,
                    generation |-> gen])
       ELSE /\ variable' = Append(variable, NewVariable(y))
            /\ function' = function

\* y = F(*inputs) through add / mul / neg.
Call(kind, inputs) ==
    /\ pc = "idle"
    /\ UNCHANGED <<tr, sh>>
    /\ Len(variable) < MaxVars
    /\ CallWith(enable_backprop, kind, inputs)
    /\ err' = "none"
    /\ UNCHANGED <<enable_backprop, frames, pc, self, retain_grad, funcs,
                   seen_set, nback, fresh, calls, hist, rerun, entry>>

\* with no_backward(): y = F(*inputs)
\* using_config sets the flag to False, the call runs, the finally clause
\* restores old_value.
NoBackwardCall(kind, inputs) ==
    /\ pc = "idle"
    /\ UNCHANGED <<tr, sh>>
    /\ Len(variable) < MaxVars
    /\ LET old_value == enable_backprop
       IN /\ CallWith(FALSE, kind, inputs)
          /\ enable_backprop' = Restore(old_value)
    /\ err' = "none"
    /\ UNCHANGED <<frames, pc, self, retain_grad, funcs, seen_set, nback,
                   fresh, calls, hist, rerun, entry>>

\* Mutant of Cleared: cleargrad leaves the grad in place.
ClearedNot(v) == v

\* Variable.cleargrad: self.grad = None
Cleared(v) == [v EXCEPT !.grad = None]

cleargrad(x) ==
    /\ pc = "idle"
    /\ UNCHANGED <<tr, sh>>
    /\ variable' = [variable EXCEPT ![x] = Cleared(@)]
    /\ err' = "none"
    /\ hist' = IF hist.seed = 0 THEN hist ELSE [hist EXCEPT !.cleared = @ \cup {x}]
    /\ UNCHANGED <<enable_backprop, frames, function, pc, self, retain_grad,
                   funcs, seen_set, nback, fresh, calls, rerun, entry>>

\* ------------------------------------------------------------ backward
\* add_func: append unless seen, then the stable sort by generation puts
\* the new entry after every entry whose generation is not greater.
\* Mutant of SortedInsert: add_func appends and does not sort.
AppendUnsorted(fs, f) == Append(fs, f)

RECURSIVE SortedInsert(_, _)
SortedInsert(fs, f) ==
    IF fs = <<>> THEN <<f>>
    ELSE IF function[Last(fs)].generation <= function[f].generation
         THEN Append(fs, f)
         ELSE Append(SortedInsert(Front(fs), f), Last(fs))

\* Mutant of add_func: no check against seen_set.
add_func_unseen(st, f) ==
    [seen |-> st.seen \cup {f}, funcs |-> SortedInsert(st.funcs, f)]

add_func(st, f) ==
    IF f \notin st.seen
    THEN [seen |-> st.seen \cup {f}, funcs |-> SortedInsert(st.funcs, f)]
    ELSE st

\* x.grad = dx if x.grad is None else x.grad + dx
Accumulate(grad, dx) == IF grad = None THEN Some(dx) ELSE Some(grad[1] + dx)

\* The for loop over zip(f.inputs, dxs): st carries the heap and the worklist.
RECURSIVE ForInputs(_, _, _, _)
ForInputs(st, inputs, dxs, i) ==
    IF i > Len(inputs) \/ i > Len(dxs) THEN st
    ELSE LET x == inputs[i]
             heap == [st.heap EXCEPT ![x].grad = Accumulate(@, dxs[i])]
             wl == IF st.heap[x].creator # NoCreator
                   THEN add_func([seen |-> st.seen, funcs |-> st.funcs],
                                 st.heap[x].creator)
                   ELSE [seen |-> st.seen, funcs |-> st.funcs]
         IN ForInputs([heap |-> heap, seen |-> wl.seen, funcs |-> wl.funcs],
                      inputs, dxs, i + 1)

\* Mutant of ClearOutputs: the grads of the outputs are never cleared.
ClearOutputsNever(heap, outputs, retain) == heap

\* if not retain_grad: for y in f.outputs: y().grad = None
ClearOutputs(heap, outputs, retain) ==
    IF retain THEN heap
    ELSE [x \in 1..Len(heap) |->
            IF x \in Range(outputs) THEN [heap[x] EXCEPT !.grad = None] ELSE heap[x]]

\* The Functions reachable from Function f through input / creator edges.
RECURSIVE FnClosure(_)
FnClosure(f) ==
    {f} \cup UNION {FnClosure(variable[x].creator) :
                      x \in {i \in Range(function[f].inputs) : variable[i].creator # NoCreator}}

ReachFns(x) ==
    IF variable[x].creator = NoCreator THEN {} ELSE FnClosure(variable[x].creator)

\* The seed and its ancestors.
ReachVars(x) == {x} \cup UNION {Range(function[f].inputs) : f \in ReachFns(x)}

\* backward() up to the loop: seed self.grad, add_func(self.creator).
\* With self.creator None, add_func sorts a list holding None and the key
\* function reads None.generation: AttributeError leaves backward().
Backward(x, retain) ==
    /\ pc = "idle"
    /\ UNCHANGED <<tr, sh>>
    /\ nback < MaxBackward
    /\ nback' = nback + 1
    /\ variable' = IF variable[x].grad = None
                   THEN [variable EXCEPT ![x].grad = Some(1)]
                   ELSE variable
    /\ hist' = NoHist
    /\ IF variable[x].creator = NoCreator
       THEN /\ err' = "AttributeError"
            /\ UNCHANGED <<pc, self, retain_grad, funcs, seen_set, fresh, calls, rerun>>
       ELSE LET st == add_func([seen |-> {}, funcs |-> <<>>], variable[x].creator)
            IN /\ funcs' = st.funcs
               /\ seen_set' = st.seen
               /\ pc' = "while"
               /\ err' = "none"
               /\ self' = x
               /\ retain_grad' = retain
               /\ fresh' = (\A v \in 1..Len(variable) : variable[v].grad = None)
               /\ calls' = [f \in 1..Len(function) |-> 0]
               /\ rerun' = IF hist.seed = x /\ retain
                           THEN [kind |-> IF hist.cleared = {x} THEN "seed"
                                          ELSE IF ReachVars(x) \subseteq hist.cleared
                                               THEN "all" ELSE "no",
                                 snap |-> hist.snap]
                           ELSE NoRerun
    /\ UNCHANGED <<enable_backprop, frames, function, entry>>

\* One iteration of "while funcs".  A rule applied to a grad that is None
\* raises TypeError, which leaves backward().
Step ==
    /\ pc = "while"
    /\ UNCHANGED <<tr, sh>>
    /\ funcs # <<>>
    /\ LET f == Last(funcs)
           fn == function[f]
           dy == variable[fn.outputs[1]].grad
           xs == [i \in 1..Len(fn.inputs) |-> variable[fn.inputs[i]].data]
       IN IF dy = None
          THEN /\ err' = "TypeError"
               /\ pc' = "idle"
               /\ funcs' = <<>>
               /\ seen_set' = {}
               /\ self' = 0
               /\ retain_grad' = FALSE
               /\ fresh' = FALSE
               /\ calls' = <<>>
               /\ rerun' = NoRerun
               /\ UNCHANGED variable
          ELSE LET dxs == BackwardRule(fn.kind, xs, dy[1])
                   st == ForInputs([heap |-> variable, seen |-> seen_set,
                                    funcs |-> Front(funcs)], fn.inputs, dxs, 1)
               IN /\ variable' = ClearOutputs(st.heap, fn.outputs, retain_grad)
                  /\ funcs' = st.funcs
                  /\ seen_set' = st.seen
                  /\ calls' = [calls EXCEPT ![f] = @ + 1]
                  /\ UNCHANGED <<err, pc, self, retain_grad, fresh, rerun>>
    /\ UNCHANGED <<enable_backprop, frames, function, nback, hist, entry>>

\* The loop ends and backward() returns.
Return ==
    /\ pc = "while"
    /\ UNCHANGED <<tr, sh>>
    /\ funcs = <<>>
    /\ pc' = "idle"
    /\ seen_set' = {}
    /\ self' = 0
    /\ retain_grad' = FALSE
    /\ fresh' = FALSE
    /\ calls' = <<>>
    /\ rerun' = NoRerun
    /\ hist' = IF retain_grad /\ fresh
               THEN [seed |-> self,
                     snap |-> [v \in 1..Len(variable) |-> variable[v].grad],
                     cleared |-> {}]
               ELSE NoHist
    /\ UNCHANGED <<enable_backprop, frames, variable, function, funcs, err, nback,
                   entry>>

\* ------------------------------------------------------------ Transpose
\* An array is followed through Transpose by the order of its axes: entry
\* i of a layout names the axis of the input that sits at position i
\* (positions and axes count from 0, as in numpy).
Identity(n) == [i \in 1..n |-> i - 1]

\* numpy reads a negative axis a of an n-dimensional array as a + n.
NormalizeAxis(a, n) == IF a < 0 THEN a + n ELSE a

\* ndarray.transpose(axes): axis i of the result is axis axes[i] of the
\* array; with axes None the axes are reversed.
NumpyTranspose(layout, axes) ==
    LET n == Len(layout)
    IN IF axes = None THEN [i \in 1..n |-> layout[n + 1 - i]]
       ELSE [i \in 1..n |-> layout[NormalizeAxis(axes[i], n) + 1]]

\* np.array(axes).argsort(): the indices that sort the values as written.
Argsort(axes) ==
    [k \in 1..Len(axes) |->
        (CHOOSE i \in 1..Len(axes) :
            Cardinality({j \in 1..Len(axes) : axes[j] < axes[i]}) = k - 1) - 1]

\* The axes tuples ndarray.transpose accepts for n dimensions: each entry
\* in -n..n-1, no axis repeated once negative entries are normalized.
AcceptedAxes(n) ==
    {ax \in [1..n -> (0 - n)..(n - 1)] :
        \A i, j \in 1..n : i # j => NormalizeAxis(ax[i], n) # NormalizeAxis(ax[j], n)}

\* Transpose(axes).forward
TransposeForward ==
    /\ tr.stage = "input"
    /\ tr' = [tr EXCEPT !.stage = "forward",
                        !.layout = NumpyTranspose(tr.layout, tr.axes)]
    /\ UNCHANGED <<engine, sh>>

\* Transpose(axes).backward: transpose(dy) when axes is None, else
\* transpose(dy, inv_axes) with inv_axes the argsort of axes.
TransposeBackward ==
    /\ tr.stage = "forward"
    /\ tr' = [tr EXCEPT !.stage = "backward",
                        !.layout = IF tr.axes = None
                                   THEN NumpyTranspose(tr.layout, None)
                                   ELSE NumpyTranspose(tr.layout, Argsort(tr.axes))]
    /\ UNCHANGED <<engine, sh>>

\* ------------------------------------------------------------ shapes
\* A shape is a tuple of dimension sizes.
Dims == {1, 2, 3}
Shapes == UNION {[1..n -> Dims] : n \in 0..MaxNdim}

Max2(a, b) == IF a > b THEN a ELSE b

\* Dimension i (from the left, 1-based) of shape s once s is padded on the
\* left with ones to n dimensions.
Padded(s, n, i) == IF i <= n - Len(s) THEN 1 ELSE s[i - (n - Len(s))]

\* numpy broadcasting: right-aligned dimensions agree or one of them is 1.
Broadcastable(a, b) ==
    LET n == Max2(Len(a), Len(b))
    IN \A i \in 1..n :
          \/ Padded(a, n, i) = Padded(b, n, i)
          \/ Padded(a, n, i) = 1
          \/ Padded(b, n, i) = 1

BroadcastShape(a, b) ==
    LET n == Max2(Len(a), Len(b))
    IN [i \in 1..n |-> Max2(Padded(a, n, i), Padded(b, n, i))]

\* utils.sum_to: sum over the leading axes and over the axes where shape
\* is 1, keeping dimensions, then squeeze the leading axes.
UtilsSumTo(xshape, shape) ==
    LET lead == Len(xshape) - Len(shape)
    IN [i \in 1..Len(shape) |-> IF shape[i] = 1 THEN 1 ELSE xshape[i + lead]]

\* functions.sum_to: the Variable itself when the shapes agree, else SumTo.
sum_to(xshape, shape) == IF xshape = shape THEN xshape ELSE UtilsSumTo(xshape, shape)

\* The shapes forward accepts, per Function with two inputs.
ForwardAccepts(kind, x0, x1) ==
    CASE kind \in {"Add", "Sub", "Mul", "Div"} -> Broadcastable(x0, x1)
      [] kind = "MatMul" -> Len(x0) = 2 /\ Len(x1) = 2 /\ x0[2] = x1[1]
      \* len(error) needs at least one dimension
      [] kind = "MeanSquaredError" ->
            Broadcastable(x0, x1) /\ Len(BroadcastShape(x0, x1)) >= 1

\* The shape of forward's result.
ForwardShape(kind, x0, x1) ==
    CASE kind \in {"Add", "Sub", "Mul", "Div"} -> BroadcastShape(x0, x1)
      [] kind = "MatMul" -> <<x0[1], x1[2]>>
      [] kind = "MeanSquaredError" -> <<>>

\* Add / Sub / Mul / Div .backward: both gradients have dy's shape and go
\* through sum_to when the input shapes differ.
BroadcastBackward(x0, x1, dy) ==
    LET dx0 == BroadcastShape(dy, x1)
        dx1 == BroadcastShape(dy, x0)
    IN IF x0 # x1 THEN <<sum_to(dx0, x0), sum_to(dx1, x1)>> ELSE <<dx0, dx1>>

\* Add and Sub return dy itself (negated for Sub), Mul and Div multiply it
\* by the other input.
ElementwiseBackward(kind, x0, x1, dy) ==
    IF kind \in {"Add", "Sub"}
    THEN IF x0 # x1 THEN <<sum_to(dy, x0), sum_to(dy, x1)>> ELSE <<dy, dy>>
    ELSE BroadcastBackward(x0, x1, dy)

\* MatMul.backward: dx = matmul(dy, W.T), dW = matmul(x.T, dy).
MatMulBackward(x, W, dy) == <<<<dy[1], W[1]>>, <<x[2], dy[2]>>>>

\* MeanSquaredError.backward: error = x0 - x1; dx0 = dy * error * (2 / len);
\* dx1 = -dx0.
MeanSquaredErrorBackward(x0, x1, dy) ==
    LET error == BroadcastShape(x0, x1)
        dx0 == BroadcastShape(dy, error)
        dx1 == dx0
    IN <<dx0, dx1>>

BackwardShapes(kind, x0, x1, dy) ==
    CASE kind \in {"Add", "Sub", "Mul", "Div"} -> ElementwiseBackward(kind, x0, x1, dy)
      [] kind = "MatMul" -> MatMulBackward(x0, x1, dy)
      [] kind = "MeanSquaredError" -> MeanSquaredErrorBackward(x0, x1, dy)

ShapeKinds == {"Add", "Sub", "Mul", "Div", "MatMul", "MeanSquaredError"}

\* Function.__call__: forward on the two inputs.
ShapeForward ==
    /\ sh.stage = "input"
    /\ sh' = [sh EXCEPT !.stage = "forward",
                        !.y = ForwardShape(sh.kind, sh.x0, sh.x1)]
    /\ UNCHANGED <<engine, tr>>

\* backward() on the output: dy is ones of the output's shape.
ShapeBackward ==
    /\ sh.stage = "forward"
    /\ LET dxs == BackwardShapes(sh.kind, sh.x0, sh.x1, sh.y)
       IN sh' = [sh EXCEPT !.stage = "backward", !.gx0 = dxs[1], !.gx1 = dxs[2]]
    /\ UNCHANGED <<engine, tr>>

\* ------------------------------------------------------------ specification
EngineInit ==
    /\ enable_backprop = TRUE
    /\ frames = <<>>
    /\ variable = <<>>
    /\ function = <<>>
    /\ pc = "idle"
    /\ self = 0
    /\ retain_grad = FALSE
    /\ funcs = <<>>
    /\ seen_set = {}
    /\ err = "none"
    /\ nback = 0
    /\ fresh = FALSE
    /\ calls = <<>>
    /\ hist = NoHist
    /\ rerun = NoRerun
    /\ entry = <<>>

Init ==
    /\ EngineInit
    /\ tr = [stage |-> "idle"]
    /\ sh = [stage |-> "idle"]

Inputs(kind) ==
    IF Arity(kind) = 1 THEN {<<a>> : a \in 1..Len(variable)}
    ELSE {<<a, b>> : a \in 1..Len(variable), b \in 1..Len(variable)}

Next ==
    \/ \E data \in LeafData : Leaf(data)
    \/ \E kind \in Kinds : \E inputs \in Inputs(kind) : Call(kind, inputs)
    \/ \E kind \in Kinds : \E inputs \in Inputs(kind) : NoBackwardCall(kind, inputs)
    \/ \E x \in 1..Len(variable) : cleargrad(x)
    \/ \E x \in 1..Len(variable) : \E retain \in BOOLEAN : Backward(x, retain)
    \/ Step
    \/ Return

Spec == Init /\ [][Next]_vars

\* Nested using_config blocks, entered with either value and left normally
\* or by an exception.
NextConfig ==
    \/ \E value \in BOOLEAN : Enter(value)
    \/ \E raised \in BOOLEAN : Exit(raised)

SpecConfig == Init /\ [][NextConfig]_vars

\* One Transpose applied forward and backward, for every accepted axes.
InitTranspose ==
    /\ EngineInit
    /\ sh = [stage |-> "idle"]
    /\ \E n \in 1..MaxNdim : \E ax \in AcceptedAxes(n) \cup {None} :
          tr = [stage |-> "input", axes |-> ax, layout |-> Identity(n)]

NextTranspose == TransposeForward \/ TransposeBackward

SpecTranspose == InitTranspose /\ [][NextTranspose]_vars

\* One two-input Function applied forward and backward, for every pair of
\* shapes its forward accepts.
InitShape ==
    /\ EngineInit
    /\ tr = [stage |-> "idle"]
    /\ \E kind \in ShapeKinds : \E x0 \in Shapes : \E x1 \in Shapes :
          /\ ForwardAccepts(kind, x0, x1)
          /\ sh = [stage |-> "input", kind |-> kind, x0 |-> x0, x1 |-> x1,
                   y |-> <<>>, gx0 |-> <<>>, gx1 |-> <<>>]

NextShape == ShapeForward \/ ShapeBackward

SpecShape == InitShape /\ [][NextShape]_vars

\* ------------------------------------------------------------ properties
\* backward()'s loop has emptied the worklist and is about to return.
Done == pc = "while" /\ funcs = <<>>

\* The uses <<f, i>> of Variable y as input i of a Function reachable from
\* the seed.
Consumers(y) ==
    {c \in ReachFns(self) \X (1..2) :
        c[2] <= Len(function[c[1]].inputs) /\ function[c[1]].inputs[c[2]] = y}

\* The gradient reverse-mode differentiation assigns to y: the seed's ones
\* plus, for every use of y by a reachable Function, what that Function's
\* rule returns for that input when given the gradient of its output.
RECURSIVE Expected(_)
Contribution(c) ==
    LET fn == function[c[1]]
        xs == [i \in 1..Len(fn.inputs) |-> variable[fn.inputs[i]].data]
    IN BackwardRule(fn.kind, xs, Expected(fn.outputs[1]))[c[2]]

RECURSIVE Contributions(_)
Contributions(S) ==
    IF S = {} THEN 0
    ELSE LET c == CHOOSE c \in S : TRUE IN Contribution(c) + Contributions(S \ {c})

Expected(y) == (IF y = self THEN 1 ELSE 0) + Contributions(Consumers(y))

RECURSIVE SumSeq(_)
SumSeq(q) == IF q = <<>> THEN 0 ELSE q[1] + SumSeq(Tail(q))

\* C1: in a backward() begun with every grad None, when a Function is about
\* to be removed from the worklist (it is the last entry), every reachable
\* Function consuming its output has already been processed and the grad on
\* its output is the complete sum of the contributions of all those uses.
C1_ConsumersProcessedFirst ==
    (pc = "while" /\ fresh /\ funcs # <<>>) =>
        LET y == function[Last(funcs)].outputs[1]
        IN /\ \A c \in Consumers(y) :
                 calls[c[1]] = 1 /\ c[1] \in seen_set /\ c[1] \notin Range(funcs)
           /\ variable[y].grad = Some(Expected(y))

\* A Function is about to be removed whose output is used by two reachable
\* Functions of different generations, both already processed.
C1_Witness ==
    /\ pc = "while" /\ fresh /\ funcs # <<>>
    /\ \E c, d \in Consumers(function[Last(funcs)].outputs[1]) :
          /\ function[c[1]].generation < function[d[1]].generation
          /\ calls[c[1]] = 1 /\ calls[d[1]] = 1

\* C2: within one backward() every Function reachable from the seed has its
\* rule called exactly once by the time the loop ends, no unreachable
\* Function is ever called or enqueued, and the number of removals never
\* exceeds the number of reachable Functions.
C2_EachReachableOnce ==
    pc = "while" =>
        /\ \A f \in 1..Len(function) :
              /\ calls[f] <= 1
              /\ calls[f] = 1 => f \in ReachFns(self)
        /\ Range(funcs) \subseteq ReachFns(self)
        /\ SumSeq(calls) <= Cardinality(ReachFns(self))
        /\ funcs = <<>> => \A f \in ReachFns(self) : calls[f] = 1

\* The loop has ended on a graph where some Function was reached through
\* two inputs, leaving an unreachable Function aside.
C2_Witness ==
    /\ Done
    /\ \E f \in ReachFns(self) :
          Cardinality({c \in ReachFns(self) \X (1..2) :
              /\ c[2] <= Len(function[c[1]].inputs)
              /\ variable[function[c[1]].inputs[c[2]]].creator = f}) >= 2
    /\ \E f \in 1..Len(function) : f \notin ReachFns(self)

\* C6: when backward() began with every grad None and its loop has ended:
\* with retain_grad False, every reachable Variable that has a creator (the
\* seed too) has grad None and every grad that is set is on a reachable
\* leaf; with retain_grad True every reachable Variable has its grad.
C6_OnlyLeavesKeepGrad ==
    (Done /\ fresh) =>
        IF retain_grad
        THEN \A v \in ReachVars(self) : variable[v].grad # None
        ELSE \A v \in 1..Len(variable) :
                /\ (v \in ReachVars(self) /\ variable[v].creator # NoCreator)
                       => variable[v].grad = None
                /\ variable[v].grad # None
                       => (v \in ReachVars(self) /\ variable[v].creator = NoCreator)

\* A backward(retain_grad=False) has ended on a seed with an intermediate
\* ancestor and a leaf ancestor.
C6_Witness ==
    /\ Done /\ fresh /\ ~retain_grad
    /\ \E v \in ReachVars(self) : v # self /\ variable[v].creator # NoCreator
    /\ \E v \in ReachVars(self) : variable[v].creator = NoCreator /\ variable[v].grad # None

\* C7: every Function's generation is the maximum generation of its inputs,
\* its output has that generation plus one, a Variable without creator has
\* generation 0, and no step changes the generation of a Variable.
GenerationInv ==
    /\ \A f \in 1..Len(function) :
          /\ function[f].generation =
                MaxOf([i \in 1..Len(function[f].inputs) |->
                          variable[function[f].inputs[i]].generation])
          /\ \A y \in Range(function[f].outputs) :
                /\ variable[y].creator = f
                /\ variable[y].generation = function[f].generation + 1
                /\ \A x \in Range(function[f].inputs) :
                      variable[y].generation > variable[x].generation
    /\ \A v \in 1..Len(variable) :
          variable[v].creator = NoCreator => variable[v].generation = 0

C7_GenerationInvariant ==
    /\ []GenerationInv
    /\ [][\A v \in 1..Len(variable) :
             variable'[v].generation = variable[v].generation]_vars

\* A Function whose inputs have different generations, the larger at least 1.
C7_Witness ==
    \E f \in 1..Len(function) :
        /\ Len(function[f].inputs) = 2
        /\ variable[function[f].inputs[1]].generation = 0
        /\ variable[function[f].inputs[2]].generation >= 1
        /\ pc = "while"

\* C3 (as claimed): backward() on a Variable without creator seeds that
\* Variable's grad, raises nothing and leaves every other grad as it was.
C3_LeafBackwardIsNoOp ==
    [][\A x \in 1..Len(variable) : \A r \in BOOLEAN :
          (Backward(x, r) /\ variable[x].creator = NoCreator) =>
              /\ err' = "none"
              /\ variable'[x].grad # None
              /\ \A v \in 1..Len(variable) :
                    v # x => variable'[v].grad = variable[v].grad]_vars

\* C4 (as claimed): backward(retain_grad=True), cleargrad() on the seed
\* only, backward(retain_grad=True) again: every ancestor and the seed hold
\* the grad the first run left.
C4_RerunAfterClearingSeed ==
    (Done /\ rerun.kind = "seed") =>
        \A v \in ReachVars(self) : variable[v].grad = rerun.snap[v]

\* C4 (amended): backward(retain_grad=True), cleargrad() on the seed and on
\* every ancestor, backward(retain_grad=True) again: every ancestor and the
\* seed hold the grad the first run left.
C4_RerunAfterClearingAll ==
    (Done /\ rerun.kind = "all") =>
        \A v \in ReachVars(self) : variable[v].grad = rerun.snap[v]

\* The second run has ended on a seed with an intermediate ancestor and a
\* leaf ancestor, all cleared in between.
C4_Witness ==
    /\ Done /\ rerun.kind = "all"
    /\ \E v \in ReachVars(self) : v # self /\ variable[v].creator # NoCreator
    /\ \E v \in ReachVars(self) : variable[v].creator = NoCreator

\* C8: whenever no using_config block is open the flag has its default
\* value True, and every exit from a block, normal or by an exception,
\* leaves the flag at the value it had when that block was entered.
C8_ScopedFlag ==
    /\ [](frames = <<>> => enable_backprop = TRUE)
    /\ [][Len(frames') < Len(frames) => enable_backprop' = Last(entry)]_vars

\* An inner block that had set the flag to True was left by an exception and
\* the flag is back at the False the enclosing block had set.
C8_Witness ==
    /\ Len(frames) = 1
    /\ err = "Exception"
    /\ enable_backprop = FALSE

\* C10 (as claimed): for y = neg(x) with x a leaf, after y.backward() begun
\* with every grad None, x.grad is the negation of the ones seeded on y.
C10_NegGradIsNegation ==
    (Done /\ fresh /\ function[variable[self].creator].kind = "Neg"
          /\ variable[function[variable[self].creator].inputs[1]].creator = NoCreator) =>
        variable[function[variable[self].creator].inputs[1]].grad = Some(0 - 1)

\* C5 (as claimed): after backward, each gradient a two-input Function
\* returns has the shape of the corresponding input, for every pair of input
\* shapes its forward accepts (MeanSquaredError included).
C5_GradShapeIsInputShape ==
    sh.stage = "backward" => (sh.gx0 = sh.x0 /\ sh.gx1 = sh.x1)

\* C9 (as claimed): transposing by axes and then by the permutation
\* Transpose.backward uses puts every axis back at its own position, for
\* every axes the forward accepts.
C9_BackwardInvertsAxes ==
    tr.stage = "backward" => tr.layout = Identity(Len(tr.layout))

====
